---- MODULE Spec2Model ----
(***************************************************************************)
(* Model of the retrieval-and-synthesis pipeline of api/rag_engine.py:     *)
(* page-window expansion, context rendering, list harvesting, score hints, *)
(* tolerant JSON normalisation and source de-duplication.                  *)
(*                                                                         *)
(* Text is modelled character by character: a text is a sequence of       *)
(* one-character strings.  Characters outside ASCII are written by ASCII   *)
(* stand-ins, one token per character (the Cyrillic letters of the program *)
(* constants are transliterated letter by letter, the em dash is "~",      *)
(* the ellipsis is "_", the arrow is ">"); the backtick and the            *)
(* typographic quotes are named by their code points ("U0060", "U201C",    *)
(* "U201D", "U2018", "U2019").                                             *)
(*                                                                         *)
(* Python values are tagged records: None, bool, int, float, str, list,    *)
(* dict.  A dict is a function from key texts to values.                   *)
(***************************************************************************)
EXTENDS Integers, Sequences, FiniteSets, TLC

VARIABLES
    pc,        \* position of the request: "start", then the operation's outcome
    chunks,    \* the corpus: a sequence of chunk records (rag_engine.py:8)
    idx,       \* the ranked hit sequence (0-based chunk indices)
    limit,     \* the limit handed to build_sources_from_idx
    question,  \* the question text
    raw,       \* the raw text the completion model returned
    data,      \* what _safe_json_loads returned for raw
    out,       \* the result of the operation that ran (or the raised marker)
    args,      \* the arguments of a direct call (link_for, chunk_message)
    clock,     \* the bot's wall clock: the UTC day and the second within it
    last_message_at,  \* bot.py:34, chat id -> time of the last accepted message
    daily_usage,      \* bot.py:35, chat id -> (day, count) or None
    handlers,  \* the message handlers in flight: position and local variables
    granted    \* per chat and day, how many messages were given a quota slot

vars == <<pc, chunks, idx, limit, question, raw, data, out,
          args, clock, last_message_at, daily_usage, handlers, granted>>

\* the state of the retrieval pipeline
ragVars == <<chunks, idx, limit, question, raw, data>>

\* the state of the Telegram bot
botVars == <<clock, last_message_at, daily_usage, handlers, granted>>

\* no direct call is under way
NoArgs == [call |-> "none"]

\* the bot is not running
BotIdle ==
    /\ clock = <<>>
    /\ last_message_at = <<>>
    /\ daily_usage = <<>>
    /\ handlers = <<>>
    /\ granted = <<>>

----------------------------------------------------------------------------
(* Python values *)

PyNone == [t |-> "none"]
PyBool(b) == [t |-> "bool", b |-> b]
PyInt(n) == [t |-> "int", i |-> n]
\* a float is kept as the text of its literal
PyFloat(f) == [t |-> "float", f |-> f]
PyStr(s) == [t |-> "str", s |-> s]
PyList(l) == [t |-> "list", l |-> l]
PyDict(d) == [t |-> "dict", d |-> d]

\* bool(v): None, False, 0, 0.0, "", [] and {} are false, everything else
\* is true
Truthy(v) ==
    CASE v.t = "none" -> FALSE
      [] v.t = "bool" -> v.b
      [] v.t = "int" -> v.i # 0
      [] v.t = "float" ->
            \E k \in 1..Len(v.f) :
                /\ v.f[k] \notin {"0", ".", "-"}
                /\ \A m \in 1..k : v.f[m] \notin {"e", "E"}
      [] v.t = "str" -> v.s # <<>>
      [] v.t = "list" -> v.l # <<>>
      [] v.t = "dict" -> DOMAIN v.d # {}
      [] OTHER -> TRUE

\* a or b
PyOr(a, b) == IF Truthy(a) THEN a ELSE b

Digits == {"0", "1", "2", "3", "4", "5", "6", "7", "8", "9"}
WhiteSpace == {" ", "\n", "\t", "\r"}

DigitVal(c) ==
    CASE c = "0" -> 0 [] c = "1" -> 1 [] c = "2" -> 2 [] c = "3" -> 3
      [] c = "4" -> 4 [] c = "5" -> 5 [] c = "6" -> 6 [] c = "7" -> 7
      [] c = "8" -> 8 [] c = "9" -> 9

DigitChar(n) ==
    CASE n = 0 -> "0" [] n = 1 -> "1" [] n = 2 -> "2" [] n = 3 -> "3"
      [] n = 4 -> "4" [] n = 5 -> "5" [] n = 6 -> "6" [] n = 7 -> "7"
      [] n = 8 -> "8" [] n = 9 -> "9"

RECURSIVE DecVal(_)
\* the number a non-empty run of decimal digits denotes
DecVal(s) ==
    IF s = <<>> THEN 0
    ELSE DecVal(SubSeq(s, 1, Len(s) - 1)) * 10 + DigitVal(s[Len(s)])

RECURSIVE DecStr(_)
\* str(n) for an integer n
DecStr(n) ==
    IF n < 0 THEN <<"-">> \o DecStr(0 - n)
    ELSE IF n < 10 THEN <<DigitChar(n)>>
    ELSE DecStr(n \div 10) \o <<DigitChar(n % 10)>>

\* s.strip() / s.strip(chars): the characters of cs removed from both ends
RECURSIVE LStrip(_, _)
LStrip(s, cs) ==
    IF s # <<>> /\ s[1] \in cs THEN LStrip(Tail(s), cs) ELSE s

RECURSIVE RStrip(_, _)
RStrip(s, cs) ==
    IF s # <<>> /\ s[Len(s)] \in cs THEN RStrip(SubSeq(s, 1, Len(s) - 1), cs) ELSE s

Strip(s, cs) == RStrip(LStrip(s, cs), cs)

\* int(str): the text, stripped, is an optional sign and decimal digits
IsIntText(s) ==
    LET b == Strip(s, WhiteSpace)
        d == IF b # <<>> /\ b[1] \in {"-", "+"} THEN Tail(b) ELSE b
    IN  d # <<>> /\ \A k \in 1..Len(d) : d[k] \in Digits

IntOfText(s) ==
    LET b == Strip(s, WhiteSpace)
    IN  IF b[1] = "-" THEN 0 - DecVal(Tail(b))
        ELSE IF b[1] = "+" THEN DecVal(Tail(b))
        ELSE DecVal(b)

\* int(v) raises TypeError for None, a list or a dict and ValueError for a
\* text that is no number
IntRaises(v) ==
    CASE v.t = "int" -> FALSE
      [] v.t = "str" -> ~IsIntText(v.s)
      [] OTHER -> TRUE

IntOf(v) == IF v.t = "int" THEN v.i ELSE IntOfText(v.s)

\* str(v) for the values an answer or a page holds; a float is rendered by
\* its literal, and the repr of a non-empty list or dict by a text that
\* stands for its elements
StrOf(v) ==
    CASE v.t = "str" -> v.s
      [] v.t = "int" -> DecStr(v.i)
      [] v.t = "none" -> <<"N", "o", "n", "e">>
      [] v.t = "bool" -> IF v.b THEN <<"T", "r", "u", "e">>
                         ELSE <<"F", "a", "l", "s", "e">>
      [] v.t = "float" -> v.f
      [] v.t = "list" -> IF v.l = <<>> THEN <<"[", "]">> ELSE <<"[", "_", "]">>
      [] OTHER -> IF DOMAIN v.d = {} THEN <<"{", "}">> ELSE <<"{", "_", "}">>

\* the outcome of a call that raised, and of one that returned v
Raised == [raised |-> TRUE]
Returned(v) == [raised |-> FALSE, val |-> v]

RECURSIVE SortedSeqOf(_)
\* sorted(S) for a finite set of integers
SortedSeqOf(S) ==
    IF S = {} THEN <<>>
    ELSE LET m == CHOOSE x \in S : \A y \in S : x <= y
         IN  <<m>> \o SortedSeqOf(S \ {m})

RECURSIVE Concat(_)
\* "".join(parts)
Concat(parts) ==
    IF parts = <<>> THEN <<>> ELSE Head(parts) \o Concat(Tail(parts))

----------------------------------------------------------------------------
(* Configuration and corpus *)

\* api/config.py is not part of the sources; the values are the ones the
\* specification's scenario uses
PAGE_WINDOW == 1
BEST_K == 2
MAX_SNIPPET == 4

\* the fields of a chunk; a field that is absent (or null) reads as None
Chunk(doc, page, title, lname, text) ==
    [doc_id |-> doc, page |-> page, title |-> title, local_name |-> lname,
     path |-> PyNone, text |-> text]

\* chunks[i] for a 0-based index
Ch(i) == chunks[i + 1]

ChunkIds == 0..(Len(chunks) - 1)

----------------------------------------------------------------------------
(* Filename resolver *)

\* unicodedata.normalize("NFC", s): the one decomposed pair of the alphabet,
\* "i" followed by the combining mark "^", composes to "j"
RECURSIVE NFC(_)
NFC(s) ==
    IF Len(s) < 2 THEN s
    ELSE IF s[1] = "i" /\ s[2] = "^" THEN <<"j">> \o NFC(SubSeq(s, 3, Len(s)))
    ELSE <<s[1]>> \o NFC(Tail(s))

\* str.casefold() on the letters of the alphabet
FoldChar(c) ==
    CASE c = "A" -> "a" [] c = "B" -> "b" [] c = "C" -> "c" [] c = "D" -> "d"
      [] c = "F" -> "f" [] c = "P" -> "p" [] c = "S" -> "s" [] c = "T" -> "t"
      [] OTHER -> c

RECURSIVE CaseFold(_)
CaseFold(s) ==
    IF s = <<>> THEN <<>> ELSE <<FoldChar(Head(s))>> \o CaseFold(Tail(s))

\* the files of the document directory, in iteration order
DocsDirListing == << <<"a", ".", "p", "d", "f">>, <<"i", "^", ".", "p", "d", "f">> >>

\* _AVAILABLE_DOCS as the sequence of its (key, value) items
AVAILABLE_DOCS ==
    [k \in 1..Len(DocsDirListing) |->
        [key |-> NFC(DocsDirListing[k]), value |-> DocsDirListing[k]]]

\* resolve_local_filename(name): None, or the on-disk name
resolve_local_filename(name) ==
    IF ~Truthy(name) THEN PyNone
    ELSE LET norm == NFC(name.s)
             exact == {k \in 1..Len(AVAILABLE_DOCS) : AVAILABLE_DOCS[k].key = norm}
             folded == {k \in 1..Len(AVAILABLE_DOCS) :
                           CaseFold(AVAILABLE_DOCS[k].key) = CaseFold(norm)}
             First(S) == CHOOSE k \in S : \A m \in S : k <= m
         IN  IF exact # {} THEN PyStr(AVAILABLE_DOCS[First(exact)].value)
             ELSE IF folded # {} THEN PyStr(AVAILABLE_DOCS[First(folded)].value)
             ELSE PyNone

----------------------------------------------------------------------------
(* Context assembler *)

\* _block_text(ch): the text cut to MAX_SNIPPET characters, "_" marks the cut
block_text(ch) ==
    IF Len(ch.text) <= MAX_SNIPPET THEN ch.text
    ELSE SubSeq(ch.text, 1, MAX_SNIPPET) \o <<"_">>

\* the doc_id values of the seed hits: the keys of by_doc
SeedDocs(ix) == {Ch(ix[k]).doc_id : k \in 1..Len(ix)}

\* by_doc[doc_id]: the pages of the seed hits of that document
SeedPages(ix, doc) ==
    {Ch(ix[k]).page : k \in {m \in 1..Len(ix) : Ch(ix[m]).doc_id = doc}}

\* line 55: the pages that are truthy, as integers
Centers(ix, doc) == {IntOf(p) : p \in {q \in SeedPages(ix, doc) : Truthy(q)}}

\* lines 56-59
WantedPages(ix, doc) ==
    UNION {(c - PAGE_WINDOW)..(c + PAGE_WINDOW) : c \in Centers(ix, doc)}

\* the mutant of SameDocument: the test of the document is lost
SameDocumentAnyDoc(ch, doc) == TRUE

\* line 61: ch.get("doc_id") == doc_id
SameDocument(ch, doc) == ch.doc_id = doc

\* int() at line 55 or at line 61 raises ValueError
ExpandRaises(ix) ==
    \E doc \in SeedDocs(ix) :
        \/ \E p \in SeedPages(ix, doc) : Truthy(p) /\ IntRaises(p)
        \/ \E j \in ChunkIds :
              SameDocument(Ch(j), doc) /\ IntRaises(PyOr(Ch(j).page, PyInt(0)))

\* lines 60-62: the chunks the loop adds for one document
AddedFor(ix, doc) ==
    {j \in ChunkIds :
        /\ SameDocument(Ch(j), doc)
        /\ IntOf(PyOr(Ch(j).page, PyInt(0))) \in WantedPages(ix, doc)}

\* _expand_by_pages(idx)
expand_by_pages(ix) ==
    IF ExpandRaises(ix) THEN Raised
    ELSE Returned(SortedSeqOf({ix[k] : k \in 1..Len(ix)}
                              \cup UNION {AddedFor(ix, doc) : doc \in SeedDocs(ix)}))

\* urllib.parse.quote(s): a space is escaped, the other characters of the
\* alphabet are safe
RECURSIVE Quote(_)
Quote(s) ==
    IF s = <<>> THEN <<>>
    ELSE (IF s[1] = " " THEN <<"%", "2", "0">> ELSE <<s[1]>>) \o Quote(Tail(s))

\* viewer_url(local_name, base_url, page): page is an int or None
viewer_url(local_name, base_url, page) ==
    LET actual_local == PyOr(resolve_local_filename(local_name), local_name)
        base == RStrip(base_url, {"/"})
        suffix == <<"/", "v", "i", "e", "w", "e", "r", "/">> \o Quote(actual_local.s)
        query == IF Truthy(page)
                 THEN <<"?", "p", "a", "g", "e", "=">> \o DecStr(IntOf(page))
                 ELSE <<>>
    IN  base \o suffix \o query

\* link_for(local_name, page, base_url): int(page), None when it raises
link_for(local_name, page, base_url) ==
    LET page_int == IF IntRaises(page) THEN PyNone ELSE PyInt(IntOf(page))
    IN  viewer_url(local_name, base_url, page_int)

\* os.path.basename(p)
RECURSIVE Basename(_)
Basename(p) ==
    IF \E k \in 1..Len(p) : p[k] = "/" THEN Basename(Tail(p)) ELSE p

DEFAULT_PATH == <<"d", "o", "c", ".", "p", "d", "f">>
DEFAULT_TITLE == <<"D", "o", "k", "u", "m", "e", "n", "t">>
EM_DASH == <<"~">>

\* resolve_local_filename(ch.get("local_name")) or
\* os.path.basename(ch.get("path", "doc.pdf")); an absent path reads as None
LocalNameOf(ch) ==
    PyOr(resolve_local_filename(ch.local_name),
         PyStr(Basename(IF ch.path.t = "none" THEN DEFAULT_PATH ELSE ch.path.s)))

\* lines 86-87
BlockTitle(ch) == PyOr(ch.title, PyOr(ch.local_name, PyStr(DEFAULT_TITLE)))
BlockPage(ch) == PyOr(ch.page, PyStr(EM_DASH))

\* line 90: one rendered block
Block(ch, base_url) ==
    <<"[">> \o StrOf(BlockTitle(ch)) \o <<";", " ", "s", "t", "r", ".", " ">>
    \o StrOf(BlockPage(ch)) \o <<";", " ", "f", "a", "j", "l", ":", " ">>
    \o link_for(LocalNameOf(ch), BlockPage(ch), base_url) \o <<"]", "\n">>
    \o block_text(ch)

BLOCK_SEP == <<"\n", "\n", "-", "-", "-", "\n", "\n">>

RECURSIVE JoinBlocks(_, _)
\* sep.join(blocks)
JoinBlocks(blocks, sep) ==
    IF blocks = <<>> THEN <<>>
    ELSE IF Len(blocks) = 1 THEN blocks[1]
    ELSE blocks[1] \o sep \o JoinBlocks(Tail(blocks), sep)

RECURSIVE Blocks(_, _)
\* lines 84-90: the blocks of the expanded chunks
Blocks(expanded, base_url) ==
    IF expanded = <<>> THEN <<>>
    ELSE <<Block(Ch(Head(expanded)), base_url)>> \o Blocks(Tail(expanded), base_url)

\* idx[:n]
Prefix(ix, n) == SubSeq(ix, 1, IF Len(ix) < n THEN Len(ix) ELSE n)

\* build_context(idx, base_url)
build_context(ix, base_url) ==
    LET e == expand_by_pages(Prefix(ix, BEST_K))
    IN  IF e.raised THEN Raised
        ELSE Returned([context |->
                          JoinBlocks(Blocks(e.val, base_url), BLOCK_SEP),
                       expanded |-> e.val])

----------------------------------------------------------------------------
(* Inputs of the page-window and source specifications *)

MaxChunks == 3
MaxHits == 3

DocA == PyStr(<<"A">>)
DocB == PyStr(<<"B">>)
TitleT == PyStr(<<"T">>)
NameExact == PyStr(<<"a", ".", "p", "d", "f">>)
NameFolded == PyStr(<<"A", ".", "P", "D", "F">>)
NameUnknown == PyStr(<<"z", " ", "z">>)
BASE_URL == <<"h", ":", "/", "/", "h", "/">>

\* chunk records differing in document, page (absent, 0, a number, a numeric
\* text, a text that is no number), title and local_name
MetaPool ==
    { Chunk(DocA, PyInt(1), TitleT, NameExact, <<"x">>),
      Chunk(DocA, PyInt(2), PyNone, NameFolded, <<"a", "b", "c", "d", "e">>),
      Chunk(DocA, PyInt(3), PyNone, PyNone, <<"x">>),
      Chunk(DocA, PyNone, TitleT, NameUnknown, <<"x">>),
      Chunk(DocA, PyStr(<<"a", "b", "c">>), TitleT, NameExact, <<"x">>),
      Chunk(DocB, PyInt(0), TitleT, PyNone, <<"x">>),
      Chunk(DocB, PyStr(<<"1">>), TitleT, NameExact, <<"x">>),
      [Chunk(PyNone, PyInt(3), PyNone, PyNone, <<"x">>)
          EXCEPT !.path = PyStr(<<"d", "/", "y", ".", "p">>)] }

RECURSIVE SeqsOver(_, _)
\* the sequences of n elements of S
SeqsOver(S, n) ==
    IF n = 0 THEN {<<>>}
    ELSE {Append(s, x) : s \in SeqsOver(S, n - 1), x \in S}

RECURSIVE DistinctSeqs(_, _)
\* the sequences of n distinct elements of S
DistinctSeqs(S, n) ==
    IF n = 0 THEN {<<>>}
    ELSE UNION {{Append(s, x) : x \in S \ {s[k] : k \in 1..Len(s)}} :
                   s \in DistinctSeqs(S, n - 1)}

\* the corpora of n chunks over a pool
Corpora(pool, n) == SeqsOver(pool, n)

\* the ranked hit sequences over a corpus of n chunks: up to m distinct indices
HitSeqs(n, m) ==
    UNION {DistinctSeqs(0..(n - 1), k) : k \in 0..(IF m < n THEN m ELSE n)}

\* no operation has run
Idle == [raised |-> FALSE]

----------------------------------------------------------------------------
(* Specification of the context assembler *)

InitPages ==
    /\ pc = "start"
    /\ chunks \in Corpora(MetaPool, MaxChunks)
    /\ idx \in HitSeqs(MaxChunks, MaxHits)
    /\ limit = 0
    /\ question = <<>>
    /\ raw = <<>>
    /\ data = PyNone
    /\ out = Idle
    /\ args = NoArgs
    /\ BotIdle

\* the outcome of _expand_by_pages(idx) as the request records it
ExpandOutcome(ix) ==
    IF expand_by_pages(ix).raised THEN Raised
    ELSE Returned([expanded |-> expand_by_pages(ix).val])

\* a call of _expand_by_pages(idx)
ExpandByPages ==
    /\ pc = "start"
    /\ out' = ExpandOutcome(idx)
    /\ pc' = "expanded"
    /\ UNCHANGED <<chunks, idx, limit, question, raw, data>>
    /\ UNCHANGED <<args, botVars>>

\* a call of build_context(idx, base_url)
BuildContext ==
    /\ pc = "start"
    /\ out' = build_context(idx, BASE_URL)
    /\ pc' = "context"
    /\ UNCHANGED <<chunks, idx, limit, question, raw, data>>
    /\ UNCHANGED <<args, botVars>>

NextPages == ExpandByPages \/ BuildContext

SpecPages == InitPages /\ [][NextPages]_vars

----------------------------------------------------------------------------
(* Claims about the context assembler *)

\* the page of a chunk as line 61 reads it: an absent page is page 0
PageNum(ch) == IntOf(PyOr(ch.page, PyInt(0)))

InWindow(p, c) == c - PAGE_WINDOW <= p /\ p <= c + PAGE_WINDOW

HitSet == {idx[k] : k \in 1..Len(idx)}

\* the seed hits that have a page (a page that is absent or 0 is no page)
PagedHits == {i \in HitSet : Truthy(Ch(i).page)}

ExpandedSet == {out.val.expanded[k] : k \in 1..Len(out.val.expanded)}

C10_BuildContextNeverFails ==
    pc = "context" =>
        /\ ~out.raised
        /\ \A k \in 1..Len(out.val.expanded) :
              LET ch == Ch(out.val.expanded[k])
              IN  /\ ~Truthy(ch.page) => BlockPage(ch) = PyStr(EM_DASH)
                  /\ (~Truthy(ch.title) /\ ~Truthy(ch.local_name))
                        => BlockTitle(ch) = PyStr(DEFAULT_TITLE)

----------------------------------------------------------------------------
(* Source de-duplicator *)

DEFAULT_LIMIT == 3

\* lines 201-210: the entry appended for a chunk
SourceEntry(ch, base_url) ==
    LET local_name == LocalNameOf(ch)
        page_num == IF IntRaises(PyOr(ch.page, PyInt(1))) THEN 1
                    ELSE IntOf(PyOr(ch.page, PyInt(1)))
    IN  [title |-> PyOr(ch.title, PyOr(local_name, PyStr(DEFAULT_TITLE))).s,
         page |-> page_num,
         url |-> link_for(local_name, PyInt(page_num), base_url)]

\* line 197: key = (ch.get("title"), ch.get("page"))
SourceKey(ch) == <<ch.title, ch.page>>

RECURSIVE SourcesLoop(_, _, _, _, _)
\* lines 195-212: the loop over the hits from position k on
SourcesLoop(ix, k, res, seen, lim) ==
    IF k > Len(ix) THEN res
    ELSE LET ch == Ch(ix[k])
             key == SourceKey(ch)
         IN  IF \E m \in 1..Len(seen) : seen[m] = key
             THEN SourcesLoop(ix, k + 1, res, seen, lim)
             ELSE LET res2 == Append(res, SourceEntry(ch, BASE_URL))
                  IN  IF Len(res2) >= lim THEN res2
                      ELSE SourcesLoop(ix, k + 1, res2, Append(seen, key), lim)

\* build_sources_from_idx(idx, base_url, limit)
build_sources_from_idx(ix, lim) == SourcesLoop(ix, 1, <<>>, <<>>, lim)

InitSources ==
    /\ pc = "start"
    /\ chunks \in Corpora(MetaPool, MaxChunks)
    /\ idx \in HitSeqs(MaxChunks, MaxHits)
    /\ limit \in 1..DEFAULT_LIMIT
    /\ question = <<>>
    /\ raw = <<>>
    /\ data = PyNone
    /\ out = Idle
    /\ args = NoArgs
    /\ BotIdle

\* a call of build_sources_from_idx(idx, base_url, limit)
BuildSources ==
    /\ pc = "start"
    /\ out' = Returned([sources |-> build_sources_from_idx(idx, limit)])
    /\ pc' = "sources"
    /\ UNCHANGED <<chunks, idx, limit, question, raw, data>>
    /\ UNCHANGED <<args, botVars>>

NextSources == BuildSources

SpecSources == InitSources /\ [][NextSources]_vars

\* C5: build_sources_from_idx walks the hits in ranked order and returns at
\* most limit entries, in hit order, no two of which have the same
\* (title, page) pair, for every hit sequence, chunks with a missing page or
\* title included.
C5_SourcesDistinct ==
    pc = "sources" =>
        LET res == out.val.sources
        IN  /\ Len(res) <= limit
            /\ \E f \in [1..Len(res) -> 1..Len(idx)] :
                  /\ \A a, b \in 1..Len(res) : a < b => f[a] < f[b]
                  /\ \A a \in 1..Len(res) : res[a] = SourceEntry(Ch(idx[f[a]]), BASE_URL)
            /\ \A a, b \in 1..Len(res) :
                  a # b => <<res[a].title, res[a].page>> # <<res[b].title, res[b].page>>

----------------------------------------------------------------------------
(* List harvester *)

\* the end of the longest run of characters of cs that starts at p
RECURSIVE RunEnd(_, _, _)
RunEnd(t, p, cs) ==
    IF p <= Len(t) /\ t[p] \in cs THEN RunEnd(t, p + 1, cs) ELSE p

\* the position of the next "\n" at or after p, Len(t) + 1 when there is none
RECURSIVE LineEnd(_, _)
LineEnd(t, p) ==
    IF p <= Len(t) /\ t[p] # "\n" THEN LineEnd(t, p + 1) ELSE p

\* "^" under re.M
AtLineStart(t, p) == p = 1 \/ t[p - 1] = "\n"

\* _BULLET_RE, ^\s*(\d+)[\).\s]\s+(.*)$ under re.M, tried at position p.
\* Every quantifier takes its longest run: a shorter \s* or \d+ leaves a
\* character the next element cannot match, and after the longest \s+ the
\* rest of the line always matches (.*)$
BulletMatchAt(t, p) ==
    LET a == RunEnd(t, p, WhiteSpace)
        b == RunEnd(t, a, Digits)
        c == RunEnd(t, b + 1, WhiteSpace)
        e == LineEnd(t, c)
    IN  IF /\ AtLineStart(t, p)
           /\ b > a
           /\ b <= Len(t) /\ t[b] \in ({")", "."} \cup WhiteSpace)
           /\ c > b + 1
        THEN [ok |-> TRUE, num |-> SubSeq(t, a, b - 1), body |-> SubSeq(t, c, e - 1),
              end |-> e]
        ELSE [ok |-> FALSE]

\* re.sub(r"\s*\.\s*$", "", body) on a stripped body: the last period goes,
\* with the white space before it
StripTrailingDot(body) ==
    IF body # <<>> /\ body[Len(body)] = "."
    THEN RStrip(SubSeq(body, 1, Len(body) - 1), WhiteSpace)
    ELSE body

\* the mutant of BulletBody: the period is kept
BulletBodyKeepDot(m) == Strip(m.body, WhiteSpace)

\* lines 100-101
BulletBody(m) == StripTrailingDot(Strip(m.body, WhiteSpace))

RECURSIVE BulletItems(_, _)
\* lines 98-102: _BULLET_RE.finditer(t) from position p on
BulletItems(t, p) ==
    IF p > Len(t) THEN <<>>
    ELSE LET m == BulletMatchAt(t, p)
         IN  IF m.ok
             THEN <<[num |-> DecVal(m.num), text |-> BulletBody(m)]>>
                  \o BulletItems(t, m.end)
             ELSE BulletItems(t, p + 1)

TABLE_MARK == <<"[", "T", "A", "B", "L", "I", "C", "A", "]">>

\* s.startswith(prefix)
StartsWith(s, prefix) ==
    Len(s) >= Len(prefix) /\ SubSeq(s, 1, Len(prefix)) = prefix

RECURSIVE SplitLines(_)
\* t.splitlines()
SplitLines(t) ==
    IF t = <<>> THEN <<>>
    ELSE LET e == LineEnd(t, 1)
         IN  <<SubSeq(t, 1, e - 1)>> \o SplitLines(SubSeq(t, e + 1, Len(t)))

\* re.match(r"^(\d+)\s+(.+)$", line) on a stripped line
TableMatch(line) ==
    LET b == RunEnd(line, 1, Digits)
        c == RunEnd(line, b, WhiteSpace)
    IN  IF b > 1 /\ c > b /\ c <= Len(line)
        THEN [ok |-> TRUE, num |-> SubSeq(line, 1, b - 1),
              body |-> SubSeq(line, c, Len(line))]
        ELSE [ok |-> FALSE]

RECURSIVE TableItems(_)
\* lines 104-112 over the lines of a table chunk
TableItems(lines) ==
    IF lines = <<>> THEN <<>>
    ELSE LET line == Strip(Head(lines), WhiteSpace)
             m == TableMatch(line)
         IN  (IF line # <<>> /\ ~StartsWith(line, TABLE_MARK) /\ m.ok
              THEN <<[num |-> DecVal(m.num), text |-> Strip(m.body, WhiteSpace)]>>
              ELSE <<>>)
             \o TableItems(Tail(lines))

\* lines 97-112: the items of one chunk text
ChunkItems(t) ==
    BulletItems(t, 1)
    \o (IF StartsWith(t, TABLE_MARK) THEN TableItems(SplitLines(t)) ELSE <<>>)

RECURSIVE HarvestItems(_)
\* lines 95-112: the items of the chunks idxs, in order
HarvestItems(idxs) ==
    IF idxs = <<>> THEN <<>>
    ELSE ChunkItems(Ch(Head(idxs)).text) \o HarvestItems(Tail(idxs))

\* the mutant of ItemKeyLess: the length of the text is not part of the key
ItemKeyLessNumOnly(x, y) == x.num < y.num

\* line 116: the sort key (x[0], len(x[1]))
ItemKeyLess(x, y) ==
    x.num < y.num \/ (x.num = y.num /\ Len(x.text) < Len(y.text))

RECURSIVE SortedItems(_)
\* sorted(items, key=...): stable, the first of the least items goes first
SortedItems(items) ==
    IF items = <<>> THEN <<>>
    ELSE LET k == CHOOSE a \in 1..Len(items) :
                    /\ \A b \in 1..Len(items) : ~ItemKeyLess(items[b], items[a])
                    /\ \A b \in 1..(a - 1) : ItemKeyLess(items[a], items[b])
         IN  <<items[k]>>
             \o SortedItems(SubSeq(items, 1, k - 1) \o SubSeq(items, k + 1, Len(items)))

\* line 120: f"{num}. {text}"
ItemLine(it) == DecStr(it.num) \o <<".", " ">> \o it.text

RECURSIVE DedupLines(_, _)
\* lines 116-120: the first item of every number, rendered
DedupLines(items, seen) ==
    IF items = <<>> THEN <<>>
    ELSE IF Head(items).num \in seen THEN DedupLines(Tail(items), seen)
    ELSE <<ItemLine(Head(items))>>
         \o DedupLines(Tail(items), seen \cup {Head(items).num})

\* harvest_items_from_chunks(idxs)
harvest_items_from_chunks(idxs) ==
    LET items == HarvestItems(idxs)
    IN  IF items = <<>> THEN <<>> ELSE DedupLines(SortedItems(items), {})

----------------------------------------------------------------------------
(* Specification of the list harvester *)

TextApplyReview == <<"1", ".", " ", "A", "p", "p", "l", "y", ".", " ", "2", ".", " ", "R", "e", "v", "i", "e", "w", ".">>
TextSubmit == <<"3", ".", " ", "S", "u", "b", "m", "i", "t", ".">>
TextFoo == <<"1", ".", " ", "F", "o", "o">>
TextFooBarBaz == <<"1", ".", " ", "F", "o", "o", " ", "b", "a", "r", " ", "b", "a", "z">>
TextParen == <<"2", ")", " ", "b", ".", "\n", "3", ".", " ", "c", "c">>
TextTable == <<"[", "T", "A", "B", "L", "I", "C", "A", "]", "\n", "2", " ", "b", "b", " ", "x", "\n", "4", " ", " ", "d">>
TextPlain == <<"n", "o", " ", "i", "t", "e", "m", "s">>
TextRagged == <<"\n", " ", "0", "5", ".", " ", "e", "\n", "1", ".", "\n", "3", ".", " ", "f", ".", ".">>

HarvestChunks == 2

\* the chunks of the harvester's corpora: numbered lines, a table, plain text
HarvestPool ==
    { Chunk(DocA, PyInt(3), TitleT, NameExact, TextApplyReview),
      Chunk(DocA, PyInt(4), TitleT, NameExact, TextSubmit),
      Chunk(DocA, PyInt(1), TitleT, NameExact, TextFoo),
      Chunk(DocA, PyInt(2), TitleT, NameExact, TextFooBarBaz),
      Chunk(DocB, PyInt(3), TitleT, NameExact, TextParen),
      Chunk(DocB, PyInt(4), TitleT, NameExact, TextTable),
      Chunk(DocB, PyInt(1), TitleT, NameExact, TextPlain),
      Chunk(DocA, PyInt(5), TitleT, NameExact, TextRagged) }

\* line 219: the stems that ask for a full list
LIST_STEMS ==
    { <<"p", "e", "r", "e", "c", "i", "s", "l">>, <<"e", "t", "a", "p">>,
      <<"p", "u", "n", "k">>, <<"s", "p", "i", "s", "o", "k">>,
      <<"t", "a", "b", "l", "i", "c">> }

\* w in s
Contains(s, w) ==
    \E k \in 1..(Len(s) - Len(w) + 1) : SubSeq(s, k, k + Len(w) - 1) = w

\* line 219
need_full_list(q) == \E w \in LIST_STEMS : Contains(CaseFold(q), w)

QuestionList == <<"S", "p", "i", "s", "o", "k", "?">>
QuestionPlain == <<"k", "t", "o", "?">>

InitHarvest ==
    /\ pc = "start"
    /\ chunks \in UNION {Corpora(HarvestPool, n) : n \in 1..HarvestChunks}
    /\ idx \in HitSeqs(Len(chunks), Len(chunks))
    /\ limit = 0
    /\ question \in {QuestionList, QuestionPlain}
    /\ raw = <<>>
    /\ data = PyNone
    /\ out = Idle
    /\ args = NoArgs
    /\ BotIdle

\* a call of harvest_items_from_chunks(idx)
Harvest ==
    /\ pc = "start"
    /\ out' = Returned([lines |-> harvest_items_from_chunks(idx)])
    /\ pc' = "harvested"
    /\ UNCHANGED <<chunks, idx, limit, question, raw, data>>
    /\ UNCHANGED <<args, botVars>>

\* llm_answer, lines 217-220: the context is built from the best hits and
\* the list hint is harvested from the expanded chunks
context_and_hint(ix, q) ==
    LET c == build_context(Prefix(ix, BEST_K), BASE_URL)
    IN  IF c.raised THEN Raised
        ELSE Returned([expanded |-> c.val.expanded,
                       hint_list |-> IF need_full_list(q)
                                     THEN harvest_items_from_chunks(c.val.expanded)
                                     ELSE <<>>])

\* the first steps of llm_answer: retrieval has given idx
ExpandThenHarvest ==
    /\ pc = "start"
    /\ out' = context_and_hint(idx, question)
    /\ pc' = "hinted"
    /\ UNCHANGED <<chunks, idx, limit, question, raw, data>>
    /\ UNCHANGED <<args, botVars>>

NextHarvest == Harvest \/ ExpandThenHarvest

SpecHarvest == InitHarvest /\ [][NextHarvest]_vars

\* the (number, text) pairs extracted from the chunks idx
HarvestedItems == {HarvestItems(idx)[k] : k \in 1..Len(HarvestItems(idx))}

HarvestedNums == {it.num : it \in HarvestedItems}

\* C7: harvest_items_from_chunks returns one line "{number}. {text}" per
\* extracted number, in strictly ascending number order, and the text of a
\* line is one of minimal length among the texts extracted with its number,
\* whatever the order of the chunks; with no item it returns the empty list.
C7_HarvestShortestPerNumber ==
    pc = "harvested" =>
        LET nums == SortedSeqOf(HarvestedNums)
        IN  /\ Len(out.val.lines) = Len(nums)
            /\ \A k \in 1..Len(nums) :
                  \E it \in HarvestedItems :
                     /\ it.num = nums[k]
                     /\ out.val.lines[k] = DecStr(nums[k]) \o <<".", " ">> \o it.text
                     /\ \A other \in HarvestedItems :
                           other.num = nums[k] => Len(it.text) <= Len(other.text)

\* number 1 was extracted with a longer text before a shorter one, and the
\* line kept is "1. Foo"
C7_Witness ==
    /\ pc = "harvested"
    /\ \E a, b \in 1..Len(HarvestItems(idx)) :
          /\ a < b
          /\ HarvestItems(idx)[a].num = 1 /\ HarvestItems(idx)[b].num = 1
          /\ Len(HarvestItems(idx)[a].text) > Len(HarvestItems(idx)[b].text)
    /\ out.val.lines[1] = TextFoo

\* the corpus, hit and question of the scenario
Scenario8 ==
    /\ chunks = << Chunk(DocA, PyInt(3), TitleT, NameExact, TextApplyReview),
                   Chunk(DocA, PyInt(4), TitleT, NameExact, TextSubmit) >>
    /\ idx = <<0>>
    /\ question = QuestionList
    /\ pc = "hinted"

\* C8 as stated: on the corpus (A, 3, "1. Apply. 2. Review."),
\* (A, 4, "3. Submit.") with the page-3 chunk as the only hit the expansion
\* returns both chunks and the harvest is "1. Apply", "2. Review", "3. Submit".
C8_ScenarioThreeItems ==
    Scenario8 =>
        /\ ~out.raised
        /\ out.val.expanded = <<0, 1>>
        /\ out.val.hint_list =
              << <<"1", ".", " ", "A", "p", "p", "l", "y">>,
                 <<"2", ".", " ", "R", "e", "v", "i", "e", "w">>,
                 <<"3", ".", " ", "S", "u", "b", "m", "i", "t">> >>

\* C8 as amended: the expansion returns both chunks and the harvest is the
\* two lines "1. Apply. 2. Review" and "3. Submit": an item starts at the
\* start of a line, and "2. Review" is inside the line of item 1.
C8_ScenarioTwoLines ==
    Scenario8 =>
        /\ ~out.raised
        /\ out.val.expanded = <<0, 1>>
        /\ out.val.hint_list =
              << <<"1", ".", " ", "A", "p", "p", "l", "y", ".", " ",
                   "2", ".", " ", "R", "e", "v", "i", "e", "w">>,
                 <<"3", ".", " ", "S", "u", "b", "m", "i", "t">> >>

C8_Witness == Scenario8 /\ ~out.raised /\ Len(out.val.hint_list) = 2

----------------------------------------------------------------------------
(* Score-hint extractor *)

\* the character classes of _ABCD_PATTERNS; the Cyrillic homoglyphs of B and
\* C are the stand-ins "V", "v" and "S", "s", those of A and D coincide with
\* their Latin letters
LabelChars(key) ==
    CASE key = "A" -> {"A", "a"}
      [] key = "B" -> {"B", "b", "V", "v"}
      [] key = "C" -> {"C", "c", "S", "s"}
      [] key = "D" -> {"D", "d"}

\* [:=\-...] : colon, equals, hyphen and the dashes
ScoreSeps == {":", "=", "-", "~"}

\* line 130: q.replace(",", " ").replace(";", " ")
RECURSIVE ReplaceChars(_, _, _)
ReplaceChars(q, cs, by) ==
    IF q = <<>> THEN <<>>
    ELSE <<IF Head(q) \in cs THEN by ELSE Head(q)>> \o ReplaceChars(Tail(q), cs, by)

\* one pattern of _ABCD_PATTERNS, [Aa]\s*[:=\-]?\s*(\d+), tried at p: the
\* position after the match, 0 when it does not match
LabelMatchEnd(t, p, key) ==
    LET a == RunEnd(t, p + 1, WhiteSpace)
        b == IF a <= Len(t) /\ t[a] \in ScoreSeps
             THEN RunEnd(t, a + 1, WhiteSpace) ELSE a
        e == RunEnd(t, b, Digits)
    IN  IF p <= Len(t) /\ t[p] \in LabelChars(key) /\ e > b THEN e ELSE 0

\* the digits a match that ends before e captured
CapturedDigits(t, e) ==
    LET RECURSIVE Back(_)
        Back(k) == IF k >= 1 /\ t[k] \in Digits THEN Back(k - 1) ELSE k + 1
    IN  SubSeq(t, Back(e - 1), e - 1)

\* re.search(pat, text): the leftmost position where the pattern matches
LabelSearch(t, key) ==
    LET hits == {p \in 1..Len(t) : LabelMatchEnd(t, p, key) # 0}
    IN  IF hits = {} THEN [ok |-> FALSE]
        ELSE LET p == CHOOSE x \in hits : \A y \in hits : x <= y
             IN  [ok |-> TRUE, val |-> DecVal(CapturedDigits(t, LabelMatchEnd(t, p, key)))]

\* the position after \s*,?\s* from p
SkipOptComma(t, p) ==
    LET a == RunEnd(t, p, WhiteSpace)
    IN  IF a <= Len(t) /\ t[a] = "," THEN RunEnd(t, a + 1, WhiteSpace) ELSE a

\* line 140: [Aa]\s*,?\s*[Bb]\s*,?\s*[Cc]\s*[-=:]\s*(\d+) tried at p
CombinedMatchEnd(t, p) ==
    LET pb == SkipOptComma(t, p + 1)
        pc3 == SkipOptComma(t, pb + 1)
        ps == RunEnd(t, pc3 + 1, WhiteSpace)
        pd == RunEnd(t, ps + 1, WhiteSpace)
        e == RunEnd(t, pd, Digits)
    IN  IF /\ p <= Len(t) /\ t[p] \in LabelChars("A")
           /\ pb <= Len(t) /\ t[pb] \in LabelChars("B")
           /\ pc3 <= Len(t) /\ t[pc3] \in LabelChars("C")
           /\ ps <= Len(t) /\ t[ps] \in ScoreSeps
           /\ e > pd
        THEN e ELSE 0

CombinedSearch(t) ==
    LET hits == {p \in 1..Len(t) : CombinedMatchEnd(t, p) # 0}
    IN  IF hits = {} THEN [ok |-> FALSE]
        ELSE LET p == CHOOSE x \in hits : \A y \in hits : x <= y
             IN  [ok |-> TRUE, val |-> DecVal(CapturedDigits(t, CombinedMatchEnd(t, p)))]

Labels == {"A", "B", "C", "D"}

\* lines 132-138: the labels found one by one, with their values
IndividualFound(t) ==
    [key \in {k \in Labels : LabelSearch(t, k).ok} |-> LabelSearch(t, key).val]

\* the mutant of TryCombined: the combined pattern is tried when fewer than
\* three of the four labels were found
TryCombinedFewerThanThree(found) == Cardinality(DOMAIN found) < 3

\* line 139: not all(k in found for k in ("A", "B", "C"))
TryCombined(found) == ~({"A", "B", "C"} \subseteq DOMAIN found)

\* lines 139-147: found.setdefault(k, val) for A, B and C
WithCombined(t, found) ==
    IF TryCombined(found) /\ CombinedSearch(t).ok
    THEN [key \in DOMAIN found \cup {"A", "B", "C"} |->
             IF key \in DOMAIN found THEN found[key] ELSE CombinedSearch(t).val]
    ELSE found

RECURSIVE SumOver(_, _)
\* sum(found.values())
SumOver(found, keys) ==
    IF keys = {} THEN 0
    ELSE LET k == CHOOSE x \in keys : TRUE
         IN  found[k] + SumOver(found, keys \ {k})

\* sorted(found.items()): the labels in order
LabelOrder == <<"A", "B", "C", "D">>

RECURSIVE HintParts(_, _)
\* lines 151-152: the parts "k=v" joined by ", "
HintParts(found, k) ==
    IF k > Len(LabelOrder) THEN <<>>
    ELSE IF LabelOrder[k] \notin DOMAIN found THEN HintParts(found, k + 1)
    ELSE LET rest == HintParts(found, k + 1)
         IN  <<LabelOrder[k], "=">> \o DecStr(found[LabelOrder[k]])
             \o (IF rest = <<>> THEN <<>> ELSE <<",", " ">> \o rest)

HINT_PREFIX == <<"P", "o", "d", "s", "k", "a", "z", "k", "a", ":", " ", "i", "z", "v", "l", "e", "c", "e", "n", "o", " ", "i", "z", " ", "v", "o", "p", "r", "o", "s", "a", " ", ">", " ">>
HINT_SUM == <<";", " ", "s", "u", "m", "m", "a", "=">>

\* lines 148-153
HintText(found) ==
    IF DOMAIN found = {} THEN <<>>
    ELSE HINT_PREFIX \o HintParts(found, 1) \o HINT_SUM
         \o DecStr(SumOver(found, DOMAIN found)) \o <<".">>

\* extract_abcd_scores(q)
extract_abcd_scores(q) ==
    LET text == ReplaceChars(q, {",", ";"}, " ")
        found == WithCombined(text, IndividualFound(text))
    IN  [found |-> found, hint |-> HintText(found)]

----------------------------------------------------------------------------
(* Specification of the score-hint extractor *)

MaxFrags == 3

\* the pieces a question is put together from
QuestionFrags ==
    { <<"A", "=", "3">>,
      <<",", " ", "B", "=", "4">>,
      <<",", " ", "C", "=", "5">>,
      <<" ", "D", " ", "7">>,
      <<"A", "1">>,
      <<"A", "B", "C", "=", "1">>,
      <<"A", ",", " ", "B", ";", " ", "C", " ", "=", " ", "5">>,
      <<"b", ":", "2">>,
      <<" ", "x", " ">>,
      <<"v", "-", "6">> }

\* the questions: up to MaxFrags pieces, one after the other
Questions == UNION {{Concat(fs) : fs \in SeqsOver(QuestionFrags, n)} : n \in 0..MaxFrags}

InitScores ==
    /\ pc = "start"
    /\ chunks = <<>>
    /\ idx = <<>>
    /\ limit = 0
    /\ question \in Questions
    /\ raw = <<>>
    /\ data = PyNone
    /\ out = Idle
    /\ args = NoArgs
    /\ BotIdle

\* a call of extract_abcd_scores(question)
ExtractScores ==
    /\ pc = "start"
    /\ out' = Returned(extract_abcd_scores(question))
    /\ pc' = "scored"
    /\ UNCHANGED <<chunks, idx, limit, question, raw, data>>
    /\ UNCHANGED <<args, botVars>>

NextScores == ExtractScores

SpecScores == InitScores /\ [][NextScores]_vars

\* the question text the patterns are searched in
ScoreText == ReplaceChars(question, {",", ";"}, " ")

\* the labels found one by one in the question, and their values
FoundAlone == IndividualFound(ScoreText)

ExampleQuestion == <<"A", "=", "3", ",", " ", "B", "=", "4", ",", " ", "C", "=", "5">>
ExampleHint ==
    <<"P", "o", "d", "s", "k", "a", "z", "k", "a", ":", " ", "i", "z", "v", "l", "e", "c", "e", "n", "o", " ", "i", "z", " ", "v", "o", "p", "r", "o", "s", "a", " ", ">", " ", "A", "=", "3", ",", " ", "B", "=", "4", ",", " ", "C", "=", "5", ";", " ", "s", "u", "m", "m", "a", "=", "1", "2", ".">>

\* the hint is empty iff nothing was found; the example gives A=3, B=4, C=5
\* and the sum 12
HintAsClaimed ==
    /\ (out.val.hint = <<>>) <=> (DOMAIN out.val.found = {})
    /\ DOMAIN out.val.found # {} =>
          /\ \A k \in DOMAIN out.val.found :
                Contains(out.val.hint, <<k, "=">> \o DecStr(out.val.found[k]))
          /\ Contains(out.val.hint,
                      HINT_SUM \o DecStr(SumOver(out.val.found, DOMAIN out.val.found))
                      \o <<".">>)
    /\ question = ExampleQuestion =>
          /\ out.val.found = [k \in {"A", "B", "C"} |->
                                 IF k = "A" THEN 3 ELSE IF k = "B" THEN 4 ELSE 5]
          /\ out.val.hint = ExampleHint

----------------------------------------------------------------------------
(* Response normaliser: json.loads *)

EmptyDict == [k \in {} |-> PyNone]

\* d[key] = v
DictSet(d, key, v) ==
    [k \in DOMAIN d \cup {key} |-> IF k = key THEN v ELSE d[k]]

\* d.get(key)
DictGet(d, key) == IF key \in DOMAIN d THEN d[key] ELSE PyNone

MinOf(S) == CHOOSE x \in S : \A y \in S : x <= y
MaxOf(S) == CHOOSE x \in S : \A y \in S : x >= y

\* the text w stands in t at position p
HasAt(t, p, w) ==
    p + Len(w) - 1 <= Len(t) /\ SubSeq(t, p, p + Len(w) - 1) = w

\* the outcome of scanning a value: it failed, or gave v and stopped at p
ParseFail == [ok |-> FALSE]
Parsed(v, p) == [ok |-> TRUE, v |-> v, p |-> p]

ControlChars == {"\n", "\t", "\r", "\f"}
HexDigits == Digits \cup {"a", "b", "c", "d", "e", "f", "A", "B", "C", "D", "E", "F"}
SimpleEscapes == {"\"", "\\", "/", "b", "f", "n", "r", "t"}

EscapedChar(c) ==
    CASE c = "n" -> "\n" [] c = "t" -> "\t" [] c = "r" -> "\r"
      [] c = "f" -> "\f" [] c = "b" -> "U0008" [] OTHER -> c

RECURSIVE BackslashRun(_, _, _)
\* the number of consecutive backslashes that end just before q, from lo on
BackslashRun(t, q, lo) ==
    IF q - 1 >= lo /\ t[q - 1] = "\\" THEN 1 + BackslashRun(t, q - 1, lo) ELSE 0

RECURSIVE Unescape(_)
\* the text of the body of a string literal that holds escapes; a \uXXXX
\* escape gives the token "UXXXX" that names its code point, also for a
\* character that has a plain spelling
Unescape(b) ==
    IF b = <<>> THEN [ok |-> TRUE, s |-> <<>>]
    ELSE IF b[1] # "\\"
    THEN LET r == Unescape(Tail(b))
         IN  IF r.ok THEN [ok |-> TRUE, s |-> <<b[1]>> \o r.s] ELSE r
    ELSE IF Len(b) >= 2 /\ b[2] \in SimpleEscapes
    THEN LET r == Unescape(SubSeq(b, 3, Len(b)))
         IN  IF r.ok THEN [ok |-> TRUE, s |-> <<EscapedChar(b[2])>> \o r.s] ELSE r
    ELSE IF Len(b) >= 6 /\ b[2] = "u" /\ \A k \in 3..6 : b[k] \in HexDigits
    THEN LET r == Unescape(SubSeq(b, 7, Len(b)))
         IN  IF r.ok
             THEN [ok |-> TRUE,
                   s |-> <<"U" \o b[3] \o b[4] \o b[5] \o b[6]>> \o r.s]
             ELSE r
    ELSE [ok |-> FALSE]

\* a string literal that opens at p: it runs to the first quote that no
\* backslash escapes, and holds no control character and no bad escape
ParseString(t, p) ==
    LET ends == {q \in (p + 1)..Len(t) :
                    t[q] = "\"" /\ BackslashRun(t, q, p + 1) % 2 = 0}
    IN  IF ends = {} THEN ParseFail
        ELSE LET q == MinOf(ends)
                 body == SubSeq(t, p + 1, q - 1)
             IN  IF \E k \in 1..Len(body) : body[k] \in ControlChars
                 THEN ParseFail
                 ELSE IF \A k \in 1..Len(body) : body[k] # "\\"
                 THEN Parsed(PyStr(body), q + 1)
                 ELSE LET u == Unescape(body)
                      IN  IF u.ok THEN Parsed(PyStr(u.s), q + 1) ELSE ParseFail

LIT_NAN == <<"N", "a", "N">>
LIT_INFINITY == <<"I", "n", "f", "i", "n", "i", "t", "y">>

\* a number at p: -?(0|[1-9]\d*)(\.\d+)?([eE][-+]?\d+)?, an int when it has
\* neither fraction nor exponent; else NaN, Infinity or -Infinity
ParseNumber(t, p) ==
    LET s == IF p <= Len(t) /\ t[p] = "-" THEN p + 1 ELSE p
        ie == IF s <= Len(t) /\ t[s] = "0" THEN s + 1 ELSE RunEnd(t, s, Digits)
        fd == RunEnd(t, ie + 1, Digits)
        fe == IF ie <= Len(t) /\ t[ie] = "." /\ fd > ie + 1 THEN fd ELSE ie
        xs == IF fe <= Len(t) /\ t[fe] \in {"e", "E"}
              THEN IF fe + 1 <= Len(t) /\ t[fe + 1] \in {"+", "-"}
                   THEN fe + 2 ELSE fe + 1
              ELSE 0
        xe == IF xs > 0 /\ RunEnd(t, xs, Digits) > xs
              THEN RunEnd(t, xs, Digits) ELSE fe
    IN  IF ie > s
        THEN IF xe = ie
             THEN Parsed(PyInt((IF s > p THEN -1 ELSE 1)
                                  * DecVal(SubSeq(t, s, ie - 1))), ie)
             ELSE Parsed(PyFloat(SubSeq(t, p, xe - 1)), xe)
        ELSE IF HasAt(t, p, LIT_NAN)
        THEN Parsed(PyFloat(LIT_NAN), p + Len(LIT_NAN))
        ELSE IF HasAt(t, s, LIT_INFINITY)
        THEN Parsed(PyFloat(SubSeq(t, p, s + Len(LIT_INFINITY) - 1)),
                    s + Len(LIT_INFINITY))
        ELSE ParseFail

RECURSIVE ParseValue(_, _), ParseMembers(_, _, _), ParseElements(_, _, _)

\* one JSON value that starts at p
ParseValue(t, p) ==
    IF p > Len(t) THEN ParseFail
    ELSE IF t[p] = "\"" THEN ParseString(t, p)
    ELSE IF t[p] = "{"
    THEN LET q == RunEnd(t, p + 1, WhiteSpace)
         IN  IF q <= Len(t) /\ t[q] = "}" THEN Parsed(PyDict(EmptyDict), q + 1)
             ELSE ParseMembers(t, q, EmptyDict)
    ELSE IF t[p] = "["
    THEN LET q == RunEnd(t, p + 1, WhiteSpace)
         IN  IF q <= Len(t) /\ t[q] = "]" THEN Parsed(PyList(<<>>), q + 1)
             ELSE ParseElements(t, q, <<>>)
    ELSE IF HasAt(t, p, <<"n", "u", "l", "l">>) THEN Parsed(PyNone, p + 4)
    ELSE IF HasAt(t, p, <<"t", "r", "u", "e">>) THEN Parsed(PyBool(TRUE), p + 4)
    ELSE IF HasAt(t, p, <<"f", "a", "l", "s", "e">>)
    THEN Parsed(PyBool(FALSE), p + 5)
    ELSE ParseNumber(t, p)

\* the members of an object from the key at p on; a later key overrides
ParseMembers(t, p, d) ==
    IF p > Len(t) \/ t[p] # "\"" THEN ParseFail
    ELSE LET key == ParseString(t, p)
         IN  IF ~key.ok THEN ParseFail
             ELSE LET c == RunEnd(t, key.p, WhiteSpace)
                  IN  IF c > Len(t) \/ t[c] # ":" THEN ParseFail
                      ELSE LET val == ParseValue(t, RunEnd(t, c + 1, WhiteSpace))
                           IN  IF ~val.ok THEN ParseFail
                               ELSE LET e == RunEnd(t, val.p, WhiteSpace)
                                        d2 == DictSet(d, key.v.s, val.v)
                                    IN  IF e > Len(t) THEN ParseFail
                                        ELSE IF t[e] = "}"
                                        THEN Parsed(PyDict(d2), e + 1)
                                        ELSE IF t[e] = ","
                                        THEN ParseMembers(t,
                                                 RunEnd(t, e + 1, WhiteSpace), d2)
                                        ELSE ParseFail

\* the elements of an array from the value at p on
ParseElements(t, p, l) ==
    LET val == ParseValue(t, p)
    IN  IF ~val.ok THEN ParseFail
        ELSE LET e == RunEnd(t, val.p, WhiteSpace)
                 l2 == Append(l, val.v)
             IN  IF e > Len(t) THEN ParseFail
                 ELSE IF t[e] = "]" THEN Parsed(PyList(l2), e + 1)
                 ELSE IF t[e] = ","
                 THEN ParseElements(t, RunEnd(t, e + 1, WhiteSpace), l2)
                 ELSE ParseFail

\* json.loads(t): one value between optional white space, nothing after it
JsonLoads(t) ==
    LET r == ParseValue(t, RunEnd(t, 1, WhiteSpace))
    IN  IF r.ok /\ RunEnd(t, r.p, WhiteSpace) > Len(t) THEN Returned(r.v)
        ELSE Raised

----------------------------------------------------------------------------
(* Response normaliser: repair, fallback, coercion and post-processing *)

BACKTICK == "U0060"
SmartDouble == {"U201C", "U201D", "U201E", "U201F"}
SmartSingle == {"U2019", "U2018"}

\* <json> and </json> under re.I
OPEN_TAG == <<{"<"}, {"j", "J"}, {"s", "S"}, {"o", "O"}, {"n", "N"}, {">"}>>
CLOSE_TAG == <<{"<"}, {"/"}, {"j", "J"}, {"s", "S"}, {"o", "O"}, {"n", "N"}, {">"}>>

TagAt(t, p, tag) ==
    p + Len(tag) - 1 <= Len(t) /\ \A k \in 1..Len(tag) : t[p + k - 1] \in tag[k]

RECURSIVE RunStart(_, _, _)
\* the start of the longest run of characters of cs that ends at p
RunStart(t, p, cs) ==
    IF p >= 1 /\ t[p] \in cs THEN RunStart(t, p - 1, cs) ELSE p + 1

\* lines 157-163: the text between the first <json> and the next </json>,
\* else the text from the first "{" to the last "}", else the text itself
Payload(s) ==
    LET closes(a) == {b \in (a + Len(OPEN_TAG))..Len(s) : TagAt(s, b, CLOSE_TAG)}
        opens == {a \in 1..Len(s) : TagAt(s, a, OPEN_TAG) /\ closes(a) # {}}
        lb == {k \in 1..Len(s) : s[k] = "{"}
        rb == {k \in 1..Len(s) : s[k] = "}"}
    IN  IF opens # {}
        THEN LET a == MinOf(opens)
             IN  Strip(SubSeq(s, a + Len(OPEN_TAG), MinOf(closes(a)) - 1),
                       WhiteSpace)
        ELSE IF lb # {} /\ rb # {} /\ MaxOf(rb) > MinOf(lb)
        THEN SubSeq(s, MinOf(lb), MaxOf(rb))
        ELSE s

\* line 164: the typographic quotes replaced by the plain ones
PlainQuotes(s) ==
    [k \in 1..Len(s) |->
        IF s[k] \in SmartDouble THEN "\""
        ELSE IF s[k] \in SmartSingle THEN "'" ELSE s[k]]

\* no "\n" from a to b: what "." can run over
OneLine(s, a, b) == \A k \in a..b : s[k] # "\n"

\* line 165, first search: (^|[{\[,]\s*)'(.*?)'\s*:
QuotedKey(s) ==
    \E q1 \in 1..Len(s) :
        /\ s[q1] = "'"
        /\ \/ q1 = 1
           \/ LET o == RunStart(s, q1 - 1, WhiteSpace) - 1
              IN  o >= 1 /\ s[o] \in {"{", "[", ","}
        /\ \E q2 \in (q1 + 1)..Len(s) :
              /\ s[q2] = "'"
              /\ OneLine(s, q1 + 1, q2 - 1)
              /\ LET c == RunEnd(s, q2 + 1, WhiteSpace)
                 IN  c <= Len(s) /\ s[c] = ":"

\* line 165, second search: :\s*'(.*?)'(\s*[}\],])
QuotedValue(s) ==
    \E c \in 1..Len(s) :
        /\ s[c] = ":"
        /\ LET q1 == RunEnd(s, c + 1, WhiteSpace)
           IN  /\ q1 <= Len(s) /\ s[q1] = "'"
               /\ \E q2 \in (q1 + 1)..Len(s) :
                     /\ s[q2] = "'"
                     /\ OneLine(s, q1 + 1, q2 - 1)
                     /\ LET e == RunEnd(s, q2 + 1, WhiteSpace)
                        IN  e <= Len(s) /\ s[e] \in {"}", "]", ","}

\* line 166: every "'" that no backslash precedes becomes "\""
DoubleQuoted(s) ==
    [k \in 1..Len(s) |->
        IF s[k] = "'" /\ (k = 1 \/ s[k - 1] # "\\") THEN "\"" ELSE s[k]]

\* line 167: a comma, and the white space after it, before "}" or "]" goes
DropTrailingCommas(s) ==
    LET closes(c) == LET e == RunEnd(s, c + 1, WhiteSpace)
                     IN  e <= Len(s) /\ s[e] \in {"}", "]"}
        dropped(k) ==
            \/ s[k] = "," /\ closes(k)
            \/ /\ s[k] \in WhiteSpace
               /\ LET c == RunStart(s, k, WhiteSpace) - 1
                  IN  c >= 1 /\ s[c] = "," /\ closes(c)
        kept == SelectSeq([k \in 1..Len(s) |-> k], LAMBDA k : ~dropped(k))
    IN  [k \in 1..Len(kept) |-> s[kept[k]]]

\* _fix_json_common_issues(s)
fix_json_common_issues(s) ==
    LET bare == Strip(Strip(Strip(s, WhiteSpace), {BACKTICK}), {"*"})
        plain == PlainQuotes(Payload(bare))
    IN  DropTrailingCommas(IF QuotedKey(plain) \/ QuotedValue(plain)
                           THEN DoubleQuoted(plain) ELSE plain)

KEY_ANSWER == <<"a", "n", "s", "w", "e", "r">>
KEY_SOURCES == <<"s", "o", "u", "r", "c", "e", "s">>
KEY_STATUS == <<"s", "t", "a", "t", "u", "s">>
KEY_TITLE == <<"t", "i", "t", "l", "e">>
KEY_PAGE == <<"p", "a", "g", "e">>
KEY_URL == <<"u", "r", "l">>
STATUS_ERROR == <<"e", "r", "r", "o", "r">>
STATUS_NOT_FOUND == <<"n", "o", "t", "_", "f", "o", "u", "n", "d">>
STATUS_ANSWERABLE == <<"a", "n", "s", "w", "e", "r", "a", "b", "l", "e">>

ANSWER_CAP == 800

\* s[:n]
Take(s, n) == SubSeq(s, 1, IF Len(s) < n THEN Len(s) ELSE n)

\* the fallback that keeps the whole repaired text
ErrorFallbackUntruncated(fixed) ==
    PyDict([k \in {KEY_STATUS, KEY_ANSWER, KEY_SOURCES} |->
               IF k = KEY_STATUS THEN PyStr(STATUS_ERROR)
               ELSE IF k = KEY_ANSWER THEN PyStr(fixed)
               ELSE PyList(<<>>)])

\* line 178: {"status": "error", "answer": fixed[:800], "sources": []}
ErrorFallback(fixed) ==
    PyDict([k \in {KEY_STATUS, KEY_ANSWER, KEY_SOURCES} |->
               IF k = KEY_STATUS THEN PyStr(STATUS_ERROR)
               ELSE IF k = KEY_ANSWER THEN PyStr(Take(fixed, ANSWER_CAP))
               ELSE PyList(<<>>)])

\* _safe_json_loads(raw): what the strict parse gives, else what the parse
\* of the repaired text gives, else the fallback
safe_json_loads(r) ==
    LET strict == JsonLoads(r)
    IN  IF ~strict.raised THEN strict.val
        ELSE LET fixed == fix_json_common_issues(r)
                 again == JsonLoads(fixed)
             IN  IF ~again.raised THEN again.val ELSE ErrorFallback(fixed)

\* re.match(r"^\d+\.\s", item)
NumberedPrefix(item) ==
    LET e == RunEnd(item, 1, Digits)
    IN  e > 1 /\ e + 1 <= Len(item) /\ item[e] = "." /\ item[e + 1] \in WhiteSpace

\* lines 184-187: the line of the i-th element of a sequence answer
AnswerLine(item, i) ==
    LET text == Strip(IF item.t = "list"
                      THEN JoinBlocks([k \in 1..Len(item.l) |-> StrOf(item.l[k])],
                                      <<";", " ">>)
                      ELSE StrOf(item), WhiteSpace)
    IN  IF NumberedPrefix(text) THEN text
        ELSE DecStr(i) \o <<".", " ">> \o text

\* _coerce_answer_text(ans)
coerce_answer_text(ans) ==
    IF ans.t = "list"
    THEN JoinBlocks([i \in 1..Len(ans.l) |-> AnswerLine(ans.l[i], i)], <<"\n">>)
    ELSE IF ans.t = "none" THEN <<>>
    ELSE Strip(StrOf(ans), WhiteSpace)

SENTINEL ==
    <<"N", "e", "t", " ", "d", "a", "n", "n", "y", "h", " ", "v", " ",
      "p", "r", "e", "d", "o", "s", "t", "a", "v", "l", "e", "n", "n", "o", "m",
      " ", "k", "o", "n", "t", "e", "k", "s", "t", "e", ".">>

LLM_SOURCES_LIMIT == 3

\* an entry of build_sources_from_idx as a value of the answer mapping
SourceValue(e) ==
    PyDict([k \in {KEY_TITLE, KEY_PAGE, KEY_URL} |->
               IF k = KEY_TITLE THEN PyStr(e.title)
               ELSE IF k = KEY_PAGE THEN PyInt(e.page)
               ELSE PyStr(e.url)])

\* line 236: build_sources_from_idx(idx, base_url, limit=3)
SynthesisedSources(ix) ==
    LET res == build_sources_from_idx(ix, LLM_SOURCES_LIMIT)
    IN  PyList([k \in 1..Len(res) |-> SourceValue(res[k])])

\* the override that forces the sources only
SentinelOverrideSourcesOnly(d) == DictSet(d, KEY_SOURCES, PyList(<<>>))

\* lines 233-234
SentinelOverride(d) ==
    DictSet(DictSet(d, KEY_SOURCES, PyList(<<>>)),
            KEY_STATUS, PyStr(STATUS_NOT_FOUND))

\* lines 237-238
DerivedStatus(d) ==
    IF KEY_STATUS \in DOMAIN d THEN d
    ELSE DictSet(d, KEY_STATUS,
                 PyStr(IF Truthy(DictGet(d, KEY_ANSWER)) THEN STATUS_ANSWERABLE
                       ELSE STATUS_NOT_FOUND))

\* lines 231-239 of llm_answer on the value _safe_json_loads returned:
\* data.get raises for a value that is no dict
PostProcess(dat, ix) ==
    IF dat.t # "dict" THEN Raised
    ELSE LET answer_text == coerce_answer_text(DictGet(dat.d, KEY_ANSWER))
             d1 == IF answer_text = SENTINEL THEN SentinelOverride(dat.d)
                   ELSE IF ~Truthy(DictGet(dat.d, KEY_SOURCES))
                   THEN DictSet(dat.d, KEY_SOURCES, SynthesisedSources(ix))
                   ELSE dat.d
         IN  Returned([result |-> PyDict(DerivedStatus(d1))])

----------------------------------------------------------------------------
(* llm_answer from the model's output on: lines 229-239 *)

AnswerChunks == 2

AnswerPool ==
    { Chunk(DocA, PyInt(1), TitleT, NameExact, <<"x">>),
      Chunk(DocA, PyInt(3), PyNone, PyNone, <<"x">>) }

RECURSIVE Repeat(_, _)
\* n times the character c
Repeat(c, n) ==
    IF n = 0 THEN <<>>
    ELSE IF n % 2 = 0 THEN LET h == Repeat(c, n \div 2) IN h \o h
    ELSE Append(Repeat(c, n - 1), c)

\* the JSON literal of a text, of a member and of an object
JsonText(s) == <<"\"">> \o s \o <<"\"">>
Member(key, literal) == JsonText(key) \o <<":", " ">> \o literal
ObjectOf(members) == <<"{">> \o JoinBlocks(members, <<",", " ">>) \o <<"}">>

LIT_NULL == <<"n", "u", "l", "l">>
TextOk == <<"o", "k">>

\* what the model may put under "answer", "sources" and "status"
AnswerLiterals ==
    { JsonText(TextOk), JsonText(<<>>), JsonText(<<" ", " ">>),
      <<"0">>, LIT_NULL, <<"f", "a", "l", "s", "e">>, <<"[", "]">>,
      <<"[">> \o JsonText(<<"a">>) \o <<",", " ">>
            \o JsonText(<<"2", ".", " ", "b">>) \o <<"]">>,
      JsonText(SENTINEL), JsonText(<<" ">> \o SENTINEL \o <<" ">>) }

SourcesLiterals ==
    { <<"[", "]">>, LIT_NULL,
      <<"[">> \o ObjectOf(<<Member(KEY_TITLE, JsonText(<<"T">>))>>) \o <<"]">> }

StatusLiterals == { JsonText(STATUS_ANSWERABLE), JsonText(STATUS_ERROR) }

\* a member that may be absent
Optional(key, literals) == {<<>>} \cup {<<Member(key, v)>> : v \in literals}

\* the outputs that are JSON objects
ObjectOutputs ==
    { ObjectOf(a \o s \o st) : a \in Optional(KEY_ANSWER, AnswerLiterals),
                               s \in Optional(KEY_SOURCES, SourcesLiterals),
                               st \in Optional(KEY_STATUS, StatusLiterals) }

ObjectOk == ObjectOf(<<Member(KEY_ANSWER, JsonText(TextOk))>>)
ObjectSentinel ==
    ObjectOf(<<Member(KEY_ANSWER, JsonText(SENTINEL)),
               Member(KEY_SOURCES, <<"[">> \o JsonText(<<"T">>) \o <<"]">>),
               Member(KEY_STATUS, JsonText(STATUS_ANSWERABLE))>>)

\* an object the strict parse rejects and the repair recovers: fenced,
\* single-quoted, starred with a trailing comma, tagged, typographically
\* quoted, inside prose
Wrapped(o) ==
    { <<BACKTICK, BACKTICK, BACKTICK, "j", "s", "o", "n", "\n">> \o o
          \o <<"\n", BACKTICK, BACKTICK, BACKTICK>>,
      ReplaceChars(o, {"\""}, "'"),
      <<"*", "*">> \o SubSeq(o, 1, Len(o) - 1) \o <<",", " ", "}", "*", "*">>,
      <<"<", "J", "S", "O", "N", ">", " ">> \o o
          \o <<" ", "<", "/", "j", "s", "o", "n", ">", " ", "t">>,
      ReplaceChars(o, {"\""}, "U201C"),
      <<"x", " ">> \o o \o <<" ", "y">> }

RepairableOutputs == Wrapped(ObjectOk) \cup Wrapped(ObjectSentinel)

\* the outputs that are valid JSON, or repaired to it, but no object
NonObjectOutputs ==
    { <<"[", "]">>, <<"1">>, LIT_NULL, JsonText(<<"s">>), <<"t", "r", "u", "e">>,
      <<"[", "1", ",", " ", "2", ",", "]">> }

\* the outputs no parse accepts: empty, garbage, truncated, prose, the
\* sentinel as prose, and texts longer than the cap
MalformedOutputs ==
    { <<>>, <<"x", " ", "y">>, <<"{">>, SubSeq(ObjectOk, 1, Len(ObjectOk) - 1),
      <<"s", "e", "e", " ", "{", "x", "}", " ", "o", "k">>,
      SENTINEL, <<" ">> \o SENTINEL \o <<"\n">>,
      Repeat("x", ANSWER_CAP + 3) }

RawOutputs ==
    ObjectOutputs \cup RepairableOutputs \cup NonObjectOutputs \cup MalformedOutputs

InitAnswer ==
    /\ pc = "start"
    /\ chunks \in Corpora(AnswerPool, AnswerChunks)
    /\ idx \in HitSeqs(AnswerChunks, AnswerChunks)
    /\ limit = LLM_SOURCES_LIMIT
    /\ question = <<>>
    /\ raw \in RawOutputs
    /\ data = PyNone
    /\ out = Idle
    /\ args = NoArgs
    /\ BotIdle

\* llm_answer once the model has returned raw (lines 230-239)
Answer ==
    /\ pc = "start"
    /\ data' = safe_json_loads(raw)
    /\ out' = PostProcess(data', idx)
    /\ pc' = "answered"
    /\ UNCHANGED <<chunks, idx, limit, question, raw>>
    /\ UNCHANGED <<args, botVars>>

NextAnswer == Answer

SpecAnswer == InitAnswer /\ [][NextAnswer]_vars

\* the coerced answer text of a mapping
AnswerOf(v) == coerce_answer_text(DictGet(v.d, KEY_ANSWER))

\* neither the strict parse nor the parse of the repaired text succeeds
Malformed ==
    JsonLoads(raw).raised /\ JsonLoads(fix_json_common_issues(raw)).raised

\* C1: for every raw model output (the empty text, garbage, truncated
\* braces, and valid JSON that is no object included) the normalisation by
\* _safe_json_loads followed by the post-processing of llm_answer never
\* raises and yields a mapping with the fields answer, sources and status.
C1_NeverRaisesAllFields ==
    pc = "answered" =>
        /\ ~out.raised
        /\ {KEY_ANSWER, KEY_SOURCES, KEY_STATUS} \subseteq DOMAIN out.val.result.d

\* C3: whenever the coerced answer text equals the sentinel, the returned
\* mapping has sources = [] and status = "not_found", whatever sources and
\* status the model output carried; no sources are synthesised from the hits.
C3_SentinelOverride ==
    (pc = "answered" /\ data.t = "dict" /\ AnswerOf(data) = SENTINEL) =>
        /\ ~out.raised
        /\ out.val.result.d[KEY_SOURCES] = PyList(<<>>)
        /\ out.val.result.d[KEY_STATUS] = PyStr(STATUS_NOT_FOUND)

\* the model output carried a padded sentinel, sources and another status,
\* there were hits to synthesise from, and the override applied
C3_Witness ==
    /\ pc = "answered"
    /\ data.t = "dict"
    /\ AnswerOf(data) = SENTINEL
    /\ DictGet(data.d, KEY_ANSWER) # PyStr(SENTINEL)
    /\ Truthy(DictGet(data.d, KEY_SOURCES))
    /\ DictGet(data.d, KEY_STATUS) = PyStr(STATUS_ANSWERABLE)
    /\ idx # <<>>
    /\ ~out.raised
    /\ out.val.result.d[KEY_SOURCES] = PyList(<<>>)
    /\ out.val.result.d[KEY_STATUS] = PyStr(STATUS_NOT_FOUND)

\* C4 as stated: when the model output is malformed, llm_answer returns the
\* error fallback: status = "error", answer = the first 800 characters of
\* the repaired text, sources = [].
C4_MalformedGivesErrorFallback ==
    (pc = "answered" /\ Malformed) =>
        /\ ~out.raised
        /\ out.val.result =
              PyDict([k \in {KEY_STATUS, KEY_ANSWER, KEY_SOURCES} |->
                  IF k = KEY_STATUS THEN PyStr(STATUS_ERROR)
                  ELSE IF k = KEY_ANSWER
                  THEN PyStr(Take(fix_json_common_issues(raw), ANSWER_CAP))
                  ELSE PyList(<<>>)])

\* C4 amended: when the model output is malformed, llm_answer does not raise
\* and returns a mapping of answer, sources and status whose answer is the
\* first 800 characters of the repaired text; if that answer, stripped, is
\* the sentinel, status is "not_found" and sources is []; otherwise status is
\* "error" and sources is what build_sources_from_idx gives for the hits
\* with limit 3 (empty only when there is no hit).
C4_MalformedFallbackPostProcessed ==
    (pc = "answered" /\ Malformed) =>
        /\ ~out.raised
        /\ LET res == out.val.result.d
               answer == Take(fix_json_common_issues(raw), ANSWER_CAP)
           IN  /\ DOMAIN res = {KEY_STATUS, KEY_ANSWER, KEY_SOURCES}
               /\ res[KEY_ANSWER] = PyStr(answer)
               /\ Len(res[KEY_ANSWER].s) <= ANSWER_CAP
               /\ IF Strip(answer, WhiteSpace) = SENTINEL
                  THEN /\ res[KEY_STATUS] = PyStr(STATUS_NOT_FOUND)
                       /\ res[KEY_SOURCES] = PyList(<<>>)
                  ELSE /\ res[KEY_STATUS] = PyStr(STATUS_ERROR)
                       /\ res[KEY_SOURCES] = SynthesisedSources(idx)
                       /\ (res[KEY_SOURCES] = PyList(<<>>)) <=> (idx = <<>>)

\* a malformed output whose repaired text is longer than the cap, with hits:
\* the answer is cut and sources are synthesised
C4_Witness ==
    /\ pc = "answered"
    /\ Malformed
    /\ Len(fix_json_common_issues(raw)) > ANSWER_CAP
    /\ idx # <<>>
    /\ ~out.raised
    /\ Len(out.val.result.d[KEY_ANSWER].s) = ANSWER_CAP
    /\ out.val.result.d[KEY_SOURCES] # PyList(<<>>)
    /\ out.val.result.d[KEY_STATUS] = PyStr(STATUS_ERROR)

\* C6: when the parsed mapping has no status and the coerced answer is not
\* the sentinel, the final status is "answerable" if and only if the coerced
\* answer text is non-empty, and "not_found" otherwise.
C6_StatusFromCoercedAnswer ==
    (/\ pc = "answered"
     /\ data.t = "dict"
     /\ KEY_STATUS \notin DOMAIN data.d
     /\ AnswerOf(data) # SENTINEL) =>
        /\ ~out.raised
        /\ out.val.result.d[KEY_STATUS] =
              PyStr(IF AnswerOf(data) # <<>> THEN STATUS_ANSWERABLE
                    ELSE STATUS_NOT_FOUND)

----------------------------------------------------------------------------
\* Viewer links: viewer_url and link_for called directly
\* (src/api/rag_engine.py:65-79)

\* page values a caller hands over: absent, integers of either sign and zero,
\* texts that int() accepts (signed, padded with blanks) and texts and values
\* it rejects
PagePool ==
    { PyNone, PyInt(0 - 2), PyInt(0 - 1), PyInt(0), PyInt(1), PyInt(2), PyInt(12),
      PyStr(<<"3">>), PyStr(<<"-", "3">>), PyStr(<<"0">>), PyStr(<<"+", "5">>),
      PyStr(<<" ", "4", " ">>), PyStr(<<"a", "b", "c">>), PyStr(<<>>),
      PyStr(<<"1", ".", "5">>), PyList(<<>>) }

\* a base URL with and without trailing slashes
BaseUrlPool == { BASE_URL, <<"h", ":", "/", "/", "h">>, <<"h", ":", "/", "/", "h", "/", "/">> }

LinkNamePool == { NameExact, NameFolded, NameUnknown }

RagIdle ==
    /\ chunks = <<>>
    /\ idx = <<>>
    /\ limit = 0
    /\ question = <<>>
    /\ raw = <<>>
    /\ data = PyNone

InitLinks ==
    /\ pc = "start"
    /\ RagIdle
    /\ out = Idle
    /\ args \in [call : {"link"}, local_name : LinkNamePool, page : PagePool,
                 base_url : BaseUrlPool]
    /\ BotIdle

\* link_for(local_name, page, base_url)
LinkFor ==
    /\ pc = "start"
    /\ pc' = "link_for"
    /\ out' = Returned([url |-> link_for(args.local_name, args.page, args.base_url)])
    /\ UNCHANGED <<ragVars, args, botVars>>

\* viewer_url(local_name, base_url, page) with a page of its declared type,
\* int | None
ViewerUrl ==
    /\ pc = "start"
    /\ args.page.t \in {"none", "int"}
    /\ pc' = "viewer_url"
    /\ out' = Returned([url |-> viewer_url(args.local_name, args.base_url, args.page)])
    /\ UNCHANGED <<ragVars, args, botVars>>

NextLinks == LinkFor \/ ViewerUrl

SpecLinks == InitLinks /\ [][NextLinks]_vars

PAGE_QUERY == <<"?", "p", "a", "g", "e", "=">>

\* t ends with w
EndsWith(t, w) == Len(w) <= Len(t) /\ HasAt(t, Len(t) - Len(w) + 1, w)

\* the page value is a valid positive integer
PositivePage(v) == ~IntRaises(v) /\ IntOf(v) >= 1

\* C11: viewer_url and link_for never raise, and the URL they return carries
\* the query parameter ?page=N if and only if the page value is a valid
\* positive integer N >= 1; for a missing, zero, negative or non-numeric page
\* the parameter is left out.
C11_PageParamIffPositive ==
    pc \in {"link_for", "viewer_url"} =>
        /\ ~out.raised
        /\ Contains(out.val.url, PAGE_QUERY) <=> PositivePage(args.page)
        /\ PositivePage(args.page) =>
              EndsWith(out.val.url, PAGE_QUERY \o DecStr(IntOf(args.page)))

----------------------------------------------------------------------------
\* Telegram bot: the rate limiter and the daily quota of handle_message
\* (src/telegram/bot.py:33-35, 79-102, 200-226).  TeleBot hands every
\* incoming message to a pool of worker threads, so several handlers run at
\* once; a handler's reads and writes of the module-level dictionaries and of
\* the clock are separate steps that other handlers' steps may come between.

\* telegram/config.py
DAILY_REQUEST_LIMIT == 2
MESSAGE_RATE_SECONDS == 1

\* the worker threads that run handlers at the same time
WorkerThreads == 2

MaxChats == 2
MaxMessages == 3
MaxDays == 2
MaxTime == 2

Chats == 1..MaxChats
Messages == 1..MaxMessages
Days == 1..MaxDays

\* a message that has not arrived yet
NoHandler ==
    [pos |-> "none", chat |-> 0, now |-> 0, last_seen |-> 0, today |-> 0,
     stored |-> <<>>]

\* where a handler is when a worker thread is running it
Running ==
    {"rate_limit", "rate_limit_get", "rate_limit_check",
     "quota", "quota_get", "quota_check", "forward"}

Busy == {h \in Messages : handlers[h].pos \in Running}

InitBot ==
    /\ pc = "polling"
    /\ RagIdle
    /\ out = Idle
    /\ args = NoArgs
    /\ clock = [day |-> 1, time |-> 1]
    /\ last_message_at = [c \in Chats |-> 0]
    /\ daily_usage = [c \in Chats |-> <<>>]
    /\ handlers = [h \in Messages |-> NoHandler]
    /\ granted = [c \in Chats |-> [d \in Days |-> 0]]

\* time passes within the day
Tick ==
    /\ clock.time < MaxTime
    /\ clock' = [clock EXCEPT !.time = @ + 1]
    /\ UNCHANGED <<pc, ragVars, out, args, last_message_at, daily_usage,
                   handlers, granted>>

\* time passes and the UTC day changes
Midnight ==
    /\ clock.time < MaxTime
    /\ clock.day < MaxDays
    /\ clock' = [day |-> clock.day + 1, time |-> clock.time + 1]
    /\ UNCHANGED <<pc, ragVars, out, args, last_message_at, daily_usage,
                   handlers, granted>>

\* a text message of chat c arrives and a free worker thread starts
\* handle_message on it
Receive(h, c) ==
    /\ handlers[h].pos = "none"
    /\ \A g \in Messages : g < h => handlers[g].pos # "none"
    /\ Cardinality(Busy) < WorkerThreads
    /\ handlers' = [handlers EXCEPT ![h] = [NoHandler EXCEPT !.pos = "rate_limit",
                                                             !.chat = c]]
    /\ UNCHANGED <<pc, ragVars, out, args, clock, last_message_at, daily_usage,
                   granted>>

\* rate_limit, line 80: now = time.time()
RateLimitNow(h) ==
    /\ handlers[h].pos = "rate_limit"
    /\ handlers' = [handlers EXCEPT ![h].now = clock.time,
                                    ![h].pos = "rate_limit_get"]
    /\ UNCHANGED <<pc, ragVars, out, args, clock, last_message_at, daily_usage,
                   granted>>

\* rate_limit, line 81: last_seen = last_message_at.get(chat_id, 0.0)
RateLimitGet(h) ==
    /\ handlers[h].pos = "rate_limit_get"
    /\ handlers' = [handlers EXCEPT ![h].last_seen = last_message_at[handlers[h].chat],
                                    ![h].pos = "rate_limit_check"]
    /\ UNCHANGED <<pc, ragVars, out, args, clock, last_message_at, daily_usage,
                   granted>>

\* rate_limit, lines 82-87, and handle_message, lines 201-207: too soon after
\* the chat's last message the handler replies and returns, otherwise it
\* records the time and goes on
RateLimitCheck(h) ==
    /\ handlers[h].pos = "rate_limit_check"
    /\ LET delta == handlers[h].now - handlers[h].last_seen
       IN  IF delta < MESSAGE_RATE_SECONDS
           THEN /\ handlers' = [handlers EXCEPT ![h].pos = "too_often"]
                /\ UNCHANGED last_message_at
           ELSE /\ last_message_at' =
                      [last_message_at EXCEPT ![handlers[h].chat] = handlers[h].now]
                /\ handlers' = [handlers EXCEPT ![h].pos = "quota"]
    /\ UNCHANGED <<pc, ragVars, out, args, clock, daily_usage, granted>>

\* consume_daily_quota, line 91: today = datetime.now(timezone.utc).date()
QuotaToday(h) ==
    /\ handlers[h].pos = "quota"
    /\ handlers' = [handlers EXCEPT ![h].today = clock.day,
                                    ![h].pos = "quota_get"]
    /\ UNCHANGED <<pc, ragVars, out, args, clock, last_message_at, daily_usage,
                   granted>>

\* consume_daily_quota, line 92: stored = daily_usage.get(chat_id)
QuotaGet(h) ==
    /\ handlers[h].pos = "quota_get"
    /\ handlers' = [handlers EXCEPT ![h].stored = daily_usage[handlers[h].chat],
                                    ![h].pos = "quota_check"]
    /\ UNCHANGED <<pc, ragVars, out, args, clock, last_message_at, daily_usage,
                   granted>>

\* consume_daily_quota, lines 93-97: the count the handler goes by
CountOf(stored, today) ==
    IF stored # <<>> /\ stored[1] = today THEN stored[2] ELSE 0

\* consume_daily_quota, lines 98-102, and handle_message, lines 209-215: at
\* the limit the handler replies and returns; otherwise it stores the count
\* raised by one, which grants the message a slot
QuotaCheck(h) ==
    /\ handlers[h].pos = "quota_check"
    /\ LET c == handlers[h].chat
           today == handlers[h].today
           count == CountOf(handlers[h].stored, today)
       IN  IF count >= DAILY_REQUEST_LIMIT
           THEN /\ handlers' = [handlers EXCEPT ![h].pos = "limit_reached"]
                /\ UNCHANGED <<daily_usage, granted>>
           ELSE /\ daily_usage' = [daily_usage EXCEPT ![c] = <<today, count + 1>>]
                /\ granted' = [granted EXCEPT ![c][today] = @ + 1]
                /\ handlers' = [handlers EXCEPT ![h].pos = "forward"]
    /\ UNCHANGED <<pc, ragVars, out, args, clock, last_message_at>>

\* handle_message, lines 217-226: the question is forwarded to the API
Forward(h) ==
    /\ handlers[h].pos = "forward"
    /\ handlers' = [handlers EXCEPT ![h].pos = "answered"]
    /\ UNCHANGED <<pc, ragVars, out, args, clock, last_message_at, daily_usage,
                   granted>>

NextBot ==
    \/ Tick
    \/ Midnight
    \/ \E h \in Messages, c \in Chats : Receive(h, c)
    \/ \E h \in Messages : RateLimitNow(h)
    \/ \E h \in Messages : RateLimitGet(h)
    \/ \E h \in Messages : RateLimitCheck(h)
    \/ \E h \in Messages : QuotaToday(h)
    \/ \E h \in Messages : QuotaGet(h)
    \/ \E h \in Messages : QuotaCheck(h)
    \/ \E h \in Messages : Forward(h)

SpecBot == InitBot /\ [][NextBot]_vars

\* C12: for every chat and every UTC day, whatever the interleaving of the
\* handlers, the number of messages granted a quota slot never exceeds
\* DAILY_REQUEST_LIMIT, and the count daily_usage holds for the chat and the
\* day equals the number of slots granted.
C12_QuotaNeverExceeded ==
    \A c \in Chats, d \in Days :
        /\ granted[c][d] <= DAILY_REQUEST_LIMIT
        /\ (daily_usage[c] # <<>> /\ daily_usage[c][1] = d) =>
               daily_usage[c][2] = granted[c][d]

----------------------------------------------------------------------------
\* Telegram bot: splitting an answer into messages
\* (src/telegram/bot.py:31, 55-76, 123-127)

MAX_MESSAGE_LENGTH == 4096

\* s.rfind(w): the 0-based index of the last occurrence of w in s, or -1
RFind(s, w) ==
    LET at == {k \in 1..(Len(s) - Len(w) + 1) : SubSeq(s, k, k + Len(w) - 1) = w}
    IN  IF at = {} THEN 0 - 1 ELSE MaxOf(at) - 1

RECURSIVE ChunkLoop(_, _, _)
\* lines 61-75: the while loop, from the text that remains and the parts so far
ChunkLoop(remaining, lim, parts) ==
    IF remaining = <<>> THEN parts
    ELSE IF Len(remaining) <= lim THEN Append(parts, remaining)
    ELSE LET chunk == SubSeq(remaining, 1, lim)
             nl == RFind(chunk, <<"\n">>)
             stop == RFind(chunk, <<".", " ">>)
             first == IF nl > stop THEN nl ELSE stop
             second == IF first = 0 - 1 \/ first < lim \div 2
                       THEN RFind(chunk, <<" ">>)
                       ELSE first
             split_at == IF second = 0 - 1 THEN lim ELSE second
         IN  ChunkLoop(LStrip(SubSeq(remaining, split_at + 1, Len(remaining)),
                              WhiteSpace),
                       lim,
                       Append(parts, RStrip(SubSeq(remaining, 1, split_at),
                                            WhiteSpace)))

\* chunk_message(text, limit)
chunk_message(text, lim) ==
    IF Len(text) <= lim THEN <<text>> ELSE ChunkLoop(text, lim, <<>>)

MaxText == 6
MaxLimit == 4

TextAlphabet == {"a", " ", "\n", "."}

\* every non-empty text over the alphabet up to the length bound
ShortTexts == UNION {[1..n -> TextAlphabet] : n \in 1..MaxText}

\* texts longer than a Telegram message: one unbroken word, and the same
\* word after a leading blank
LongTexts ==
    { Repeat("a", MAX_MESSAGE_LENGTH + 1),
      <<" ">> \o Repeat("a", MAX_MESSAGE_LENGTH + 1) }

InitChunks ==
    /\ pc = "start"
    /\ RagIdle
    /\ out = Idle
    /\ args \in [call : {"chunk"}, text : ShortTexts, limit : 1..MaxLimit]
                \cup [call : {"chunk"}, text : LongTexts, limit : {MAX_MESSAGE_LENGTH}]
    /\ BotIdle

\* chunk_message(text, limit)
ChunkMessage ==
    /\ pc = "start"
    /\ pc' = "chunk_message"
    /\ out' = Returned([parts |-> chunk_message(args.text, args.limit)])
    /\ UNCHANGED <<ragVars, args, botVars>>

\* send_markdown(chat_id, text): chunk_message with the default limit, one
\* message sent per part
SendMarkdown ==
    /\ pc = "start"
    /\ args.limit = MAX_MESSAGE_LENGTH
    /\ pc' = "send_markdown"
    /\ out' = Returned([parts |-> chunk_message(args.text, MAX_MESSAGE_LENGTH)])
    /\ UNCHANGED <<ragVars, args, botVars>>

NextChunks == ChunkMessage \/ SendMarkdown

SpecChunks == InitChunks /\ [][NextChunks]_vars

\* C13: for a non-empty text and a limit of at least 1, every part
\* chunk_message returns has between 1 and limit characters: no part is empty
\* and none is longer than the limit, also for a text that begins with
\* whitespace or holds none.
C13_PartsWithinLimit ==
    pc \in {"chunk_message", "send_markdown"} =>
        /\ ~out.raised
        /\ \A k \in 1..Len(out.val.parts) :
              /\ Len(out.val.parts[k]) >= 1
              /\ Len(out.val.parts[k]) <= args.limit

====
